---------------------------- MODULE Spec2Model ----------------------------
(***************************************************************************)
(* Model of haipproxy's ProxyClient (src/haipproxy/client.py): the scorer, *)
(* the pool builder (_fill_pool), the pool cursor (proxy_gen), the         *)
(* feedback sets (mark_good / mark_dead) and the pruner (del_all_fails).   *)
(*                                                                         *)
(* Strings are sequences of one-character strings, so startswith, lower    *)
(* and the string order used by list.sort are computed, not assumed.       *)
(* Scores are kept in hundredths (cal_score rounds to 2 decimals).         *)
(***************************************************************************)
EXTENDS Integers, Sequences, FiniteSets, TLC

(***************************** strings *************************************)

\* "http://a:1"
KHttpA == <<"h","t","t","p",":","/","/","a",":","1">>
\* "https://a:1"
KHttpsA == <<"h","t","t","p","s",":","/","/","a",":","1">>
\* "http://b:1"
KHttpB == <<"h","t","t","p",":","/","/","b",":","1">>

\* The proxy keys the record store may hold.
Keys == {KHttpA, KHttpsA, KHttpB}

\* The protocol arguments callers pass to proxy_gen: "", "http", "HTTPS".
Protocols == { <<>>, <<"h","t","t","p">>, <<"H","T","T","P","S">> }

\* Unicode code point of a character (str comparison is by code point).
Ord(c) ==
    CASE c = "/" -> 47 [] c = "1" -> 49 [] c = ":" -> 58
      [] c = "H" -> 72 [] c = "P" -> 80 [] c = "S" -> 83 [] c = "T" -> 84
      [] c = "a" -> 97 [] c = "b" -> 98 [] c = "h" -> 104
      [] c = "p" -> 112 [] c = "s" -> 115 [] c = "t" -> 116

\* str.lower() on one character.
LowerChar(c) ==
    CASE c = "H" -> "h" [] c = "P" -> "p" [] c = "S" -> "s" [] c = "T" -> "t"
      [] OTHER -> c

\* str.lower()
Lower(s) == [i \in 1..Len(s) |-> LowerChar(s[i])]

\* s.startswith(prefix)
StartsWith(s, prefix) ==
    /\ Len(prefix) <= Len(s)
    /\ \A i \in 1..Len(prefix) : s[i] = prefix[i]

\* s < t for Python str: lexicographic by code point.
RECURSIVE StrLess(_, _)
StrLess(s, t) ==
    IF t = <<>> THEN FALSE
    ELSE IF s = <<>> THEN TRUE
    ELSE IF Ord(Head(s)) # Ord(Head(t)) THEN Ord(Head(s)) < Ord(Head(t))
    ELSE StrLess(Tail(s), Tail(t))

\* The scan pattern "http*://*": "http", anything, "://", anything.
MatchProxyKey(k) ==
    /\ StartsWith(k, <<"h","t","t","p">>)
    /\ \E i \in 5..(Len(k) - 2) : k[i] = ":" /\ k[i+1] = "/" /\ k[i+2] = "/"

(***************************** scorer **************************************)

\* time.time(), in whole seconds.
Now == 1000000

\* Minimum score for the working set (haipproxy.settings.LOWEST_SCORE).
LOWEST_SCORE == 6

\* Scores are held in hundredths: 10.42 is 1042.
Scale == 100

\* math.log(x) in ten-thousandths, for the ages the model's records have.
LnE4(x) ==
    CASE x = 60 -> 40943 [] x = 3600 -> 81886 [] x = 2592000 -> 147679

\* n / d rounded to the nearest integer, for d > 0 (n / d is in hundredths).
Round2(n, d) == (2 * n + d) \div (2 * d)

Fields == {"used_count", "success_count", "total_seconds", "last_fail",
           "timestamp", "score"}

\* A redis hash is a map from the fields it has; no field: the key is absent.
NoRecord == [f \in {} |-> 0]

Exists(rec) == DOMAIN rec # {}

Ok(v) == [ok |-> TRUE, val |-> v]
Raise(e) == [ok |-> FALSE, err |-> e]

\* The weighted sum of cal_score in hundredths, rounded as round(.., 2):
\* the terms that are whole hundredths, plus the rounded fraction
\* over 400 * used * success of the others.
WeightedScore(u, s, t, lf, age) ==
    LET speed == IF 15 * s - t > 0 THEN 15 * s - t ELSE 0
        whole ==   50 * s                               \* 0.5 * success
                 + 414                                  \* 0.25 * 16.56
                 + (IF lf = "" THEN 200 ELSE -100)      \* 1 * (2 or -1)
        n ==   400 * 200 * s * s                        \* 2 * success / used
             - LnE4(age) * u * s                        \* -0.25 * ln(age)
             + 400 * 20 * speed * u                     \* 0.20 * max(0, ..)
    IN whole + Round2(n, 400 * u * s)

\* A cal_score that guards the division by used_count before anything else.
CalScoreGuardFirst(st) ==
    IF ~(Fields \subseteq DOMAIN st) THEN Raise("KeyError")
    ELSE IF st.used_count = 0 THEN Raise("ZeroDivisionError")
    ELSE IF st.success_count = 0 THEN Ok(-(Scale * st.used_count))
    ELSE IF Now - st.timestamp <= 0 THEN Raise("ValueError")
    ELSE Ok(WeightedScore(st.used_count, st.success_count, st.total_seconds,
                          st.last_fail, Now - st.timestamp))

\* A cal_score whose never-succeeded branch has lost its minus sign.
CalScoreSignSlip(st) ==
    IF ~(Fields \subseteq DOMAIN st) THEN Raise("KeyError")
    ELSE IF st.success_count = 0 THEN Ok(Scale * st.used_count)
    ELSE IF st.used_count = 0 THEN Raise("ZeroDivisionError")
    ELSE IF Now - st.timestamp <= 0 THEN Raise("ValueError")
    ELSE Ok(WeightedScore(st.used_count, st.success_count, st.total_seconds,
                          st.last_fail, Now - st.timestamp))

\* ProxyClient.cal_score: every field is read first (a missing one raises
\* KeyError), then the never-succeeded branch, then the weighted sum.
cal_score(st) ==
    IF ~(Fields \subseteq DOMAIN st) THEN Raise("KeyError")
    ELSE IF st.success_count = 0 THEN Ok(-(Scale * st.used_count))
    ELSE IF st.used_count = 0 THEN Raise("ZeroDivisionError")
    ELSE IF Now - st.timestamp <= 0 THEN Raise("ValueError")
    ELSE Ok(WeightedScore(st.used_count, st.success_count, st.total_seconds,
                          st.last_fail, Now - st.timestamp))

(***************************** record store ********************************)

\* redis hset(key, field, value): creates the hash when the key is absent.
HSet(rec, f, v) == [g \in DOMAIN rec \cup {f} |-> IF g = f THEN v ELSE rec[g]]

\* A well-formed record.
Rec(u, s, t, lf, age, sc) ==
    [used_count |-> u, success_count |-> s, total_seconds |-> t,
     last_fail |-> lf, timestamp |-> Now - age, score |-> sc]

\* Scores 10.42 (stored 0), 6.00 (stored 4.0), 9.39 (stored 9.39),
\* 4.62 (stored 5.0), -1 (stored 0), -3 (stored 7.0).
GoodRecords ==
    { Rec(10, 5, 30, "", 60, 0),
      Rec(6, 4, 49, "x", 60, 400),
      Rec(1, 1, 1, "", 3600, 939),
      Rec(1, 1, 20, "x", 60, 500),
      Rec(1, 0, 0, "x", 60, 0),
      Rec(3, 0, 0, "x", 3600, 700) }

\* A record with a counter missing, and one holding only a score.
BadRecords ==
    { [success_count |-> 1, total_seconds |-> 1, last_fail |-> "",
       timestamp |-> Now - 60, score |-> 800],
      [score |-> -100] }

(***************************** working set *********************************)

\* (score, key) tuple order of Python: by score, then by key.
EntryLess(a, b) ==
    \/ a[1] < b[1]
    \/ a[1] = b[1] /\ StrLess(a[2], b[2])

\* Insert e into a sequence sorted descending, after its equals.
RECURSIVE InsertDesc(_, _)
InsertDesc(e, s) ==
    IF s = <<>> THEN <<e>>
    ELSE IF EntryLess(Head(s), e) THEN <<e>> \o s
    ELSE <<Head(s)>> \o InsertDesc(e, Tail(s))

\* A sort that forgets reverse=True (ascending).
RECURSIVE SortAsc(_)
SortAsc(s) ==
    IF s = <<>> THEN <<>>
    ELSE LET r == SortAsc(Tail(s))
             RECURSIVE Ins(_, _)
             Ins(e, q) == IF q = <<>> THEN <<e>>
                          ELSE IF EntryLess(e, Head(q)) THEN <<e>> \o q
                          ELSE <<Head(q)>> \o Ins(e, Tail(q))
         IN Ins(Head(s), r)

\* list.sort(reverse=True)
RECURSIVE SortDesc(_)
SortDesc(s) ==
    IF s = <<>> THEN <<>> ELSE InsertDesc(Head(s), SortDesc(Tail(s)))

\* The keys of the working set that start with prefix, in rank order.
RECURSIVE Matching(_, _)
Matching(pool, prefix) ==
    IF pool = <<>> THEN <<>>
    ELSE (IF StartsWith(Head(pool)[2], prefix) THEN <<Head(pool)[2]>> ELSE <<>>)
         \o Matching(Tail(pool), prefix)


\* Python list indexing: a negative index counts from the end.
IndexOk(pool, i) == -Len(pool) <= i /\ i < Len(pool)
Item(pool, i) == IF i >= 0 THEN pool[i + 1] ELSE pool[Len(pool) + i + 1]

(***************************** processes ***********************************)

\* How many select calls (generators of proxy_gen) there are.
NumCallers == 2
\* How many rounds of _refresh_periodically's loop are followed.
MaxRefresh == 1
\* How many del_all_fails passes are followed.
MaxPrunes == 2
\* How many mark_good / mark_dead calls the call log keeps.
MaxLog == 3

Callers == 1..NumCallers
\* The thread running _refresh_periodically.
Refresher == 0
\* The caller of del_all_fails.
Pruner == -1
Procs == Callers \cup {Refresher, Pruner}

\* self.protocol before the first proxy_gen has set it.
Unset == <<"?">>

VARIABLES
    store,      \* the record store: key -> redis hash
    ppool,      \* self.ppool: sequence of <<score, key>>
    good,       \* self.good
    dead,       \* self.dead
    idx,        \* self.idx
    protocol,   \* self.protocol
    pc,         \* each process's position (a line of client.py)
    arg,        \* each select call's protocol argument
    out,        \* the keys each select call has yielded
    scan,       \* the keys a scan_iter has still to give
    pkey,       \* the loop variable pkey
    stat,       \* the result of hgetall(pkey)
    exc,        \* the exception a process ended with
    rounds,     \* refresh rounds started
    prunes,     \* prune passes started
    fblog,      \* the last MaxLog feedback calls
    snap,       \* the store when the latest rebuild or prune pass began
    prior,      \* self.ppool when each process's latest rebuild began
    lows,       \* per key: evaluations in a row at or below the prune floor
    sched       \* how select calls are scheduled against each other

vars == <<store, ppool, good, dead, idx, protocol, pc, arg, out, scan, pkey,
          stat, exc, rounds, prunes, fblog, snap, prior, lows, sched>>

poolVars == <<ppool, idx, protocol>>
feedbackVars == <<good, dead, fblog>>
loopVars == <<scan, pkey, stat>>
histVars == <<snap, prior, lows>>

\* scan_iter(match="http*://*"): the matching keys present.
ScanKeys(st) == {k \in Keys : Exists(st[k]) /\ MatchProxyKey(k)}

\* The record's stored score, the outcome of its last evaluation, is at or
\* below the prune floor.
AtOrBelowFloor(rec) ==
    "score" \in DOMAIN rec /\ rec.score <= (LOWEST_SCORE - 2) * Scale

\* ProxyClient.__init__ over a record store st (pool empty, proto Unset), or
\* the client after a select("") has run to its end over st.
InitWith(st, pool, proto, sch) ==
    /\ store = st
    /\ ppool = pool
    /\ good = {}
    /\ dead = {}
    /\ idx = -1
    /\ protocol = proto
    /\ pc = [p \in Procs |-> "idle"]
    /\ arg = [c \in Callers |-> <<>>]
    /\ out = [c \in Callers |-> <<>>]
    /\ scan = [p \in Procs |-> {}]
    /\ pkey = [p \in Procs |-> <<>>]
    /\ stat = [p \in Procs |-> NoRecord]
    /\ exc = [p \in Procs |-> ""]
    /\ rounds = 0
    /\ prunes = 0
    /\ fblog = <<>>
    /\ snap = st
    /\ prior = [p \in Procs |-> <<>>]
    /\ lows = [k \in Keys |-> IF AtOrBelowFloor(st[k]) THEN 1 ELSE 0]
    /\ sched = sch

(***************************** scheduling **********************************)

\* A select call is in progress: created and neither ended nor dropped.
Active(c) == pc[c] \notin {"idle", "done", "raised", "closed"}

\* A select call is not running: it waits at a yield, or is not in progress.
Suspended(c) == pc[c] \in {"idle", "yield", "done", "raised", "closed"}

\* No rebuild of the refresh thread and no prune pass is under way.
Quiet(q) == pc[q] \in {"idle", "raised", "L79"}

\* Whether process p may take a step now. Select calls are consumed by
\* preemptive threads (flaskapp.get_proxies under a threaded server), in
\* turns by one thread (each runs from a yield to its next), or one call
\* after the other (dump_proxies, update_conf). The refresh thread and the
\* pruner are never held back, except in a serial program: one thread makes
\* every call, select calls one after the other, and a prune pass runs from
\* its start to its end before the first step or between two steps of the
\* consumer.
CanRun(p) ==
    IF sched = "serial"
    THEN IF p \in Callers
         THEN /\ \A d \in Callers \ {p} : ~Active(d)
              /\ \A q \in Procs \ Callers : Quiet(q)
         ELSE \A d \in Callers : Suspended(d)
    ELSE IF p \notin Callers THEN TRUE
    ELSE IF sched = "threads" THEN TRUE
    ELSE IF sched = "turns" THEN \A d \in Callers \ {p} : Suspended(d)
    ELSE \A d \in Callers \ {p} : ~Active(d)

(***************************** pool builder ********************************)

\* _fill_pool, line 83: the scan starts.
FillScan(p) ==
    /\ pc[p] = "L83"
    /\ CanRun(p)
    /\ scan' = [scan EXCEPT ![p] = ScanKeys(store)]
    /\ snap' = store
    /\ pc' = [pc EXCEPT ![p] = "L85"]
    /\ UNCHANGED <<store, poolVars, feedbackVars, arg, out, pkey, stat, exc,
                   rounds, prunes, prior, lows, sched>>

\* _fill_pool, lines 83-85: the next key of the scan and its hgetall.
FillRead(p) ==
    /\ pc[p] = "L85"
    /\ CanRun(p)
    /\ \E k \in scan[p] :
        /\ scan' = [scan EXCEPT ![p] = scan[p] \ {k}]
        /\ pkey' = [pkey EXCEPT ![p] = k]
        /\ stat' = [stat EXCEPT ![p] = store[k]]
    /\ pc' = [pc EXCEPT ![p] = "L86"]
    /\ UNCHANGED <<store, poolVars, feedbackVars, arg, out, exc, rounds,
                   prunes, histVars, sched>>

\* How many evaluations in a row (counted up to 2) have put a record at or
\* below the prune floor, after one more that gave score.
Evaluated(n, score) ==
    IF score <= (LOWEST_SCORE - 2) * Scale
    THEN (IF n >= 2 THEN 2 ELSE n + 1)
    ELSE 0

\* A _fill_pool that also keeps a record scored exactly at the threshold.
FillWriteAtThreshold(p) ==
    /\ pc[p] = "L86"
    /\ CanRun(p)
    /\ LET r == cal_score(stat[p]) IN
        IF r.ok
        THEN /\ store' = [store EXCEPT
                            ![pkey[p]] = HSet(store[pkey[p]], "score", r.val)]
             /\ ppool' = IF r.val >= LOWEST_SCORE * Scale
                         THEN Append(ppool, <<r.val, pkey[p]>>)
                         ELSE ppool
             /\ lows' = [lows EXCEPT ![pkey[p]] = Evaluated(@, r.val)]
             /\ pc' = [pc EXCEPT ![p] = "L85"]
             /\ exc' = exc
        ELSE /\ pc' = [pc EXCEPT ![p] = "raised"]
             /\ exc' = [exc EXCEPT ![p] = r.err]
             /\ UNCHANGED <<store, ppool, lows>>
    /\ UNCHANGED <<idx, protocol, feedbackVars, arg, out, loopVars, rounds,
                   prunes, snap, prior, sched>>

\* A _fill_pool that does not write the score back.
FillWriteNoPersist(p) ==
    /\ pc[p] = "L86"
    /\ CanRun(p)
    /\ LET r == cal_score(stat[p]) IN
        IF r.ok
        THEN /\ ppool' = IF r.val > LOWEST_SCORE * Scale
                         THEN Append(ppool, <<r.val, pkey[p]>>)
                         ELSE ppool
             /\ lows' = [lows EXCEPT ![pkey[p]] = Evaluated(@, r.val)]
             /\ pc' = [pc EXCEPT ![p] = "L85"]
             /\ UNCHANGED <<store, exc>>
        ELSE /\ pc' = [pc EXCEPT ![p] = "raised"]
             /\ exc' = [exc EXCEPT ![p] = r.err]
             /\ UNCHANGED <<store, ppool, lows>>
    /\ UNCHANGED <<idx, protocol, feedbackVars, arg, out, loopVars, rounds,
                   prunes, snap, prior, sched>>

\* _fill_pool, lines 86-89: score the record, write the score back, append
\* the entry when it is above the threshold. cal_score raising ends the
\* rebuild with that exception.
FillWrite(p) ==
    /\ pc[p] = "L86"
    /\ CanRun(p)
    /\ LET r == cal_score(stat[p]) IN
        IF r.ok
        THEN /\ store' = [store EXCEPT
                            ![pkey[p]] = HSet(store[pkey[p]], "score", r.val)]
             /\ ppool' = IF r.val > LOWEST_SCORE * Scale
                         THEN Append(ppool, <<r.val, pkey[p]>>)
                         ELSE ppool
             /\ lows' = [lows EXCEPT ![pkey[p]] = Evaluated(@, r.val)]
             /\ pc' = [pc EXCEPT ![p] = "L85"]
             /\ exc' = exc
        ELSE /\ pc' = [pc EXCEPT ![p] = "raised"]
             /\ exc' = [exc EXCEPT ![p] = r.err]
             /\ UNCHANGED <<store, ppool, lows>>
    /\ UNCHANGED <<idx, protocol, feedbackVars, arg, out, loopVars, rounds,
                   prunes, snap, prior, sched>>

\* A _fill_pool whose sort is ascending.
FillSortAsc(p) ==
    /\ pc[p] = "L85"
    /\ CanRun(p)
    /\ scan[p] = {}
    /\ ppool' = SortAsc(ppool)
    /\ pc' = [pc EXCEPT ![p] = IF p = Refresher THEN "L79" ELSE "L63"]
    /\ UNCHANGED <<store, idx, protocol, feedbackVars, arg, out, loopVars,
                   exc, rounds, prunes, histVars, sched>>

\* _fill_pool, line 90: the scan is over, the working set is sorted; the
\* caller goes on (proxy_gen line 63, _refresh_periodically line 79).
FillSort(p) ==
    /\ pc[p] = "L85"
    /\ CanRun(p)
    /\ scan[p] = {}
    /\ ppool' = SortDesc(ppool)
    /\ pc' = [pc EXCEPT ![p] = IF p = Refresher THEN "L79" ELSE "L63"]
    /\ UNCHANGED <<store, idx, protocol, feedbackVars, arg, out, loopVars,
                   exc, rounds, prunes, histVars, sched>>

\* _refresh_periodically, line 77: the working set is cleared in place.
RefreshClear ==
    /\ pc[Refresher] = "idle"
    /\ rounds < MaxRefresh
    /\ rounds' = rounds + 1
    /\ prior' = [prior EXCEPT ![Refresher] = ppool]
    /\ ppool' = <<>>
    /\ pc' = [pc EXCEPT ![Refresher] = "L83"]
    /\ UNCHANGED <<store, idx, protocol, feedbackVars, arg, out, loopVars,
                   exc, prunes, snap, lows, sched>>

\* _refresh_periodically, line 79: the sleep, then the loop again.
RefreshSleep ==
    /\ pc[Refresher] = "L79"
    /\ pc' = [pc EXCEPT ![Refresher] = "idle"]
    /\ UNCHANGED <<store, poolVars, feedbackVars, arg, out, loopVars, exc,
                   rounds, prunes, histVars, sched>>

(***************************** pool cursor *********************************)

\* What raise StopIteration inside a generator ends the call with: a clean
\* end of the sequence before PEP 479 (Python 3.6), RuntimeError since 3.7.
ExhaustOutcomes == {"", "RuntimeError"}

\* proxy_gen(protocol) is called and its first value asked for: line 61 is
\* next to run.
Call(c, proto) ==
    /\ pc[c] = "idle"
    /\ CanRun(c)
    /\ arg' = [arg EXCEPT ![c] = proto]
    /\ pc' = [pc EXCEPT ![c] = "L61"]
    /\ UNCHANGED <<store, poolVars, feedbackVars, out, loopVars, exc, rounds,
                   prunes, histVars, sched>>

\* proxy_gen, lines 61-62: an empty working set is filled first.
CheckPool(c) ==
    /\ pc[c] = "L61"
    /\ CanRun(c)
    /\ pc' = [pc EXCEPT ![c] = IF ppool = <<>> THEN "L83" ELSE "L63"]
    /\ prior' = IF ppool = <<>> THEN [prior EXCEPT ![c] = ppool] ELSE prior
    /\ UNCHANGED <<store, poolVars, feedbackVars, arg, out, loopVars, exc,
                   rounds, prunes, snap, lows, sched>>

\* proxy_gen, line 63.
SetProtocol(c) ==
    /\ pc[c] = "L63"
    /\ CanRun(c)
    /\ protocol' = Lower(arg[c])
    /\ pc' = [pc EXCEPT ![c] = "L64"]
    /\ UNCHANGED <<store, ppool, idx, feedbackVars, arg, out, loopVars, exc,
                   rounds, prunes, histVars, sched>>

\* proxy_gen, lines 64-65.
AddColon(c) ==
    /\ pc[c] = "L64"
    /\ CanRun(c)
    /\ protocol' = IF protocol # <<>> THEN protocol \o <<":">> ELSE protocol
    /\ pc' = [pc EXCEPT ![c] = "L67"]
    /\ UNCHANGED <<store, ppool, idx, feedbackVars, arg, out, loopVars, exc,
                   rounds, prunes, histVars, sched>>

\* proxy_gen, line 67.
Advance(c) ==
    /\ pc[c] = "L67"
    /\ CanRun(c)
    /\ idx' = idx + 1
    /\ pc' = [pc EXCEPT ![c] = "L68"]
    /\ UNCHANGED <<store, ppool, protocol, feedbackVars, arg, out, loopVars,
                   exc, rounds, prunes, histVars, sched>>

\* A proxy_gen that starts over at the first entry when it passes the last.
BoundWrap(c) ==
    /\ pc[c] = "L68"
    /\ CanRun(c)
    /\ IF idx >= Len(ppool)
       THEN /\ idx' = -1
            /\ pc' = [pc EXCEPT ![c] = "L67"]
       ELSE /\ pc' = [pc EXCEPT ![c] = "L71"]
            /\ idx' = idx
    /\ UNCHANGED <<store, ppool, protocol, feedbackVars, arg, out, loopVars,
                   exc, rounds, prunes, histVars, sched>>

\* proxy_gen, lines 68-70: past the end the index is reset and the call ends.
Bound(c) ==
    /\ pc[c] = "L68"
    /\ CanRun(c)
    /\ IF idx >= Len(ppool)
       THEN /\ idx' = -1
            /\ pc' = [pc EXCEPT ![c] = "done"]
            /\ \E e \in ExhaustOutcomes : exc' = [exc EXCEPT ![c] = e]
       ELSE /\ pc' = [pc EXCEPT ![c] = "L71"]
            /\ UNCHANGED <<idx, exc>>
    /\ UNCHANGED <<store, ppool, protocol, feedbackVars, arg, out, loopVars,
                   rounds, prunes, histVars, sched>>

\* proxy_gen, line 71: the entry at self.idx against self.protocol.
Test(c) ==
    /\ pc[c] = "L71"
    /\ CanRun(c)
    /\ IF ~IndexOk(ppool, idx)
       THEN /\ pc' = [pc EXCEPT ![c] = "raised"]
            /\ exc' = [exc EXCEPT ![c] = "IndexError"]
       ELSE /\ pc' = [pc EXCEPT ![c] =
                        IF StartsWith(Item(ppool, idx)[2], protocol)
                        THEN "L72" ELSE "L67"]
            /\ exc' = exc
    /\ UNCHANGED <<store, poolVars, feedbackVars, arg, out, loopVars, rounds,
                   prunes, histVars, sched>>

\* proxy_gen, line 72: the key at self.idx is yielded.
Yield(c) ==
    /\ pc[c] = "L72"
    /\ CanRun(c)
    /\ IF ~IndexOk(ppool, idx)
       THEN /\ pc' = [pc EXCEPT ![c] = "raised"]
            /\ exc' = [exc EXCEPT ![c] = "IndexError"]
            /\ out' = out
       ELSE /\ pc' = [pc EXCEPT ![c] = "yield"]
            /\ out' = [out EXCEPT ![c] = Append(out[c], Item(ppool, idx)[2])]
            /\ exc' = exc
    /\ UNCHANGED <<store, poolVars, feedbackVars, arg, loopVars, rounds,
                   prunes, histVars, sched>>

\* The consumer asks for the next value: the loop goes on at line 67.
Resume(c) ==
    /\ pc[c] = "yield"
    /\ CanRun(c)
    /\ pc' = [pc EXCEPT ![c] = "L67"]
    /\ UNCHANGED <<store, poolVars, feedbackVars, arg, out, loopVars, exc,
                   rounds, prunes, histVars, sched>>

\* The consumer drops the generator at a yield: nothing is reset.
Close(c) ==
    /\ pc[c] = "yield"
    /\ CanRun(c)
    /\ pc' = [pc EXCEPT ![c] = "closed"]
    /\ UNCHANGED <<store, poolVars, feedbackVars, arg, out, loopVars, exc,
                   rounds, prunes, histVars, sched>>

(***************************** feedback tracker ****************************)

\* The call log with one more call, cut to the last MaxLog.
Logged(call) ==
    LET l == Append(fblog, call)
    IN IF Len(l) > MaxLog THEN Tail(l) ELSE l

\* A mark_dead that leaves the good set alone.
MarkDeadNoEvict(proxy) ==
    /\ good' = good
    /\ dead' = dead \cup {proxy}
    /\ fblog' = Logged(<<"dead", proxy>>)
    /\ UNCHANGED <<store, poolVars, pc, arg, out, loopVars, exc, rounds,
                   prunes, histVars, sched>>

\* ProxyClient.mark_dead
mark_dead(proxy) ==
    /\ good' = IF proxy \in good THEN good \ {proxy} ELSE good
    /\ dead' = dead \cup {proxy}
    /\ fblog' = Logged(<<"dead", proxy>>)
    /\ UNCHANGED <<store, poolVars, pc, arg, out, loopVars, exc, rounds,
                   prunes, histVars, sched>>

\* A mark_good that also takes the proxy out of the dead set.
MarkGoodRevive(proxy) ==
    /\ good' = good \cup {proxy}
    /\ dead' = dead \ {proxy}
    /\ fblog' = Logged(<<"good", proxy>>)
    /\ UNCHANGED <<store, poolVars, pc, arg, out, loopVars, exc, rounds,
                   prunes, histVars, sched>>

\* A mark_good that skips a proxy known dead.
MarkGoodUnlessDead(proxy) ==
    /\ good' = IF proxy \in dead THEN good ELSE good \cup {proxy}
    /\ dead' = dead
    /\ fblog' = Logged(<<"good", proxy>>)
    /\ UNCHANGED <<store, poolVars, pc, arg, out, loopVars, exc, rounds,
                   prunes, histVars, sched>>

\* ProxyClient.mark_good
mark_good(proxy) ==
    /\ good' = good \cup {proxy}
    /\ dead' = dead
    /\ fblog' = Logged(<<"good", proxy>>)
    /\ UNCHANGED <<store, poolVars, pc, arg, out, loopVars, exc, rounds,
                   prunes, histVars, sched>>

(***************************** pruner **************************************)

\* A need_op that spares a record exactly at the floor.
NeedOpStrict(row) ==
    IF "score" \notin DOMAIN row THEN Raise("KeyError")
    ELSE Ok(row.score < (LOWEST_SCORE - 2) * Scale)

\* A need_op whose comparison is the wrong way round.
NeedOpFlipped(row) ==
    IF "score" \notin DOMAIN row THEN Raise("KeyError")
    ELSE Ok(row.score >= (LOWEST_SCORE - 2) * Scale)

\* del_all_fails.need_op: float(row[b"score"]) <= LOWEST_SCORE - 2
need_op(row) ==
    IF "score" \notin DOMAIN row THEN Raise("KeyError")
    ELSE Ok(row.score <= (LOWEST_SCORE - 2) * Scale)

\* del_all_fails: map_all's scan starts.
PruneStart ==
    /\ pc[Pruner] = "idle"
    /\ CanRun(Pruner)
    /\ prunes < MaxPrunes
    /\ prunes' = prunes + 1
    /\ scan' = [scan EXCEPT ![Pruner] = ScanKeys(store)]
    /\ snap' = store
    /\ pc' = [pc EXCEPT ![Pruner] = "scan"]
    /\ UNCHANGED <<store, poolVars, feedbackVars, arg, out, pkey, stat, exc,
                   rounds, prior, lows, sched>>

\* map_all: the next key of the scan and its row.
PruneRead ==
    /\ pc[Pruner] = "scan"
    /\ \E k \in scan[Pruner] :
        /\ scan' = [scan EXCEPT ![Pruner] = scan[Pruner] \ {k}]
        /\ pkey' = [pkey EXCEPT ![Pruner] = k]
        /\ stat' = [stat EXCEPT ![Pruner] = store[k]]
    /\ pc' = [pc EXCEPT ![Pruner] = "op"]
    /\ UNCHANGED <<store, poolVars, feedbackVars, arg, out, exc, rounds,
                   prunes, histVars, sched>>

\* map_all: the key is deleted when need_op says so.
PruneOp ==
    /\ pc[Pruner] = "op"
    /\ LET r == need_op(stat[Pruner]) IN
        IF r.ok
        THEN /\ store' = IF r.val
                         THEN [store EXCEPT ![pkey[Pruner]] = NoRecord]
                         ELSE store
             /\ pc' = [pc EXCEPT ![Pruner] = "scan"]
             /\ exc' = exc
        ELSE /\ pc' = [pc EXCEPT ![Pruner] = "raised"]
             /\ exc' = [exc EXCEPT ![Pruner] = r.err]
             /\ store' = store
    /\ UNCHANGED <<poolVars, feedbackVars, arg, out, loopVars, rounds, prunes,
                   histVars, sched>>

\* map_all: the scan is over.
PruneEnd ==
    /\ pc[Pruner] = "scan"
    /\ scan[Pruner] = {}
    /\ pc' = [pc EXCEPT ![Pruner] = "idle"]
    /\ UNCHANGED <<store, poolVars, feedbackVars, arg, out, loopVars, exc,
                   rounds, prunes, histVars, sched>>

(***************************** specifications ******************************)

RECURSIVE SeqOf(_)
SeqOf(S) ==
    IF S = {} THEN <<>>
    ELSE LET x == CHOOSE y \in S : TRUE IN <<x>> \o SeqOf(S \ {x})

\* The keys _fill_pool retains over store st: scored above the threshold.
Retained(st) ==
    {k \in ScanKeys(st) : cal_score(st[k]).ok
                          /\ cal_score(st[k]).val > LOWEST_SCORE * Scale}

\* The working set a completed _fill_pool leaves over store st.
BuiltPool(st) ==
    SortDesc(SeqOf({<<cal_score(st[k]).val, k>> : k \in Retained(st)}))

\* The store a completed _fill_pool leaves over store st.
Rescored(st) ==
    [k \in Keys |-> IF k \in ScanKeys(st) /\ cal_score(st[k]).ok
                    THEN HSet(st[k], "score", cal_score(st[k]).val)
                    ELSE st[k]]

\* Record stores of well-formed records: every subset of the keys is the
\* working set of one of them.
SelectStores == [Keys -> {Rec(10, 5, 30, "", 60, 0), Rec(1, 0, 0, "x", 60, 0)}]

\* Record stores for select calls made one after the other: records
\* above the threshold, a malformed one, absent ones.
SeqStores ==
    [Keys -> {Rec(10, 5, 30, "", 60, 0), Rec(1, 1, 1, "", 3600, 939),
              [success_count |-> 1, total_seconds |-> 1, last_fail |-> "",
               timestamp |-> Now - 60, score |-> 800],
              NoRecord}]

\* Record stores with well-formed, malformed and absent records.
AllStores == [Keys -> GoodRecords \cup BadRecords \cup {NoRecord}]

\* Record stores for the pool builder running against the pruner.
ConcStores ==
    [Keys -> {Rec(10, 5, 30, "", 60, 0), Rec(3, 0, 0, "x", 3600, 700)}]

\* Record stores for the refresh running against a select call: two or
\* three records above the threshold.
RefreshStores ==
    {st \in SelectStores : st[KHttpA] = Rec(10, 5, 30, "", 60, 0)
                           /\ st[KHttpsA] = Rec(10, 5, 30, "", 60, 0)}

\* One step of select call c.
SelectStep(c) ==
    \/ \E proto \in Protocols : Call(c, proto)
    \/ CheckPool(c)
    \/ FillScan(c)
    \/ FillRead(c)
    \/ FillWrite(c)
    \/ FillSort(c)
    \/ SetProtocol(c)
    \/ AddColon(c)
    \/ Advance(c)
    \/ Bound(c)
    \/ Test(c)
    \/ Yield(c)
    \/ Resume(c)
    \/ Close(c)

\* One step of the periodic refresh.
RefreshStep ==
    \/ RefreshClear
    \/ FillScan(Refresher)
    \/ FillRead(Refresher)
    \/ FillWrite(Refresher)
    \/ FillSort(Refresher)
    \/ RefreshSleep

\* One step of a prune pass.
PruneStep ==
    \/ PruneStart
    \/ PruneRead
    \/ PruneOp
    \/ PruneEnd

\* One feedback call.
FeedbackStep == \E x \in Keys : mark_good(x) \/ mark_dead(x)

\* A fresh client; select calls one at a time (each consumed to its end,
\* or dropped, before the next is made).
InitSeq == \E st \in SeqStores : InitWith(st, <<>>, Unset, "calls")
NextSeq == \E c \in Callers : SelectStep(c)
SpecSeq == InitSeq /\ [][NextSeq]_vars

\* A client whose working set is built; select calls consumed by concurrent
\* threads (any statement of one may run between two of another).
InitSelect ==
    \E st \in SelectStores :
        InitWith(Rescored(st), BuiltPool(st), <<>>, "threads")
NextSelect == \E c \in Callers : SelectStep(c)
SpecSelect == InitSelect /\ [][NextSelect]_vars

\* The same client; select calls consumed in turns by one thread: a call
\* runs from one yield to the next while the others wait at theirs.
InitInterleave ==
    \E st \in SelectStores :
        InitWith(Rescored(st), BuiltPool(st), <<>>, "turns")
NextInterleave == \E c \in Callers : SelectStep(c)
SpecInterleave == InitInterleave /\ [][NextInterleave]_vars

\* Feedback calls alone.
InitFeedback == InitWith([k \in Keys |-> NoRecord], <<>>, Unset, "threads")
NextFeedback == FeedbackStep
SpecFeedback == InitFeedback /\ [][NextFeedback]_vars

\* Prune passes alone, one after the other.
InitPrune == \E st \in AllStores : InitWith(st, <<>>, Unset, "threads")
NextPrune == PruneStep
SpecPrune == InitPrune /\ [][NextPrune]_vars

\* A fresh client whose only activity is the periodic refresh.
InitRebuild == \E st \in AllStores : InitWith(st, <<>>, Unset, "threads")
NextRebuild == RefreshStep
SpecRebuild == InitRebuild /\ [][NextRebuild]_vars

\* A fresh client with the periodic refresh and one select call running
\* concurrently.
InitRefresh == \E st \in RefreshStores : InitWith(st, <<>>, Unset, "threads")
NextRefresh ==
    \/ SelectStep(1)
    \/ RefreshStep
SpecRefresh == InitRefresh /\ [][NextRefresh]_vars

\* The pool builder (periodic refresh) and the pruner running concurrently
\* against the record store.
Init == \E st \in ConcStores : InitWith(st, <<>>, Unset, "threads")
Next ==
    \/ RefreshStep
    \/ PruneStep
Spec == Init /\ [][Next]_vars

\* Records for the scorer: never used, never succeeded, succeeded once in
\* one or in a hundred uses, succeeded five times in ten; fast and slow; with
\* and without a last failure; a minute old, 30 days old, and stamped five
\* seconds ahead of the clock; with a cached score of 0 and of 7.0.
ScoreInputs ==
    { Rec(us[1], us[2], t, lf, age, sc) :
        us \in {<<0, 0>>, <<3, 0>>, <<100, 0>>,
                <<1, 1>>, <<100, 1>>, <<10, 5>>},
        t \in {0, 20}, lf \in {"", "x"}, age \in {60, 2592000, -5},
        sc \in {0, 700} }

\* Record stores for the scorer: any record beside none, a never-used one
\* or a proven one.
ScoreStores ==
    { [k \in Keys |-> IF k = KHttpA THEN a
                      ELSE IF k = KHttpsA THEN b ELSE NoRecord] :
        a \in ScoreInputs,
        b \in {NoRecord, Rec(0, 0, 0, "", 60, 0), Rec(10, 5, 30, "", 60, 0)} }

\* A fresh client over the scorer's records, rebuilt by the refresh.
InitScore == \E st \in ScoreStores : InitWith(st, <<>>, Unset, "threads")
NextScore == RefreshStep
SpecScore == InitScore /\ [][NextScore]_vars

\* The client with its working set built and select calls consumed by
\* concurrent threads, each of which keeps being scheduled: a select call
\* that can take a step eventually takes one.
SpecConsume ==
    /\ InitSelect
    /\ [][NextSelect]_vars
    /\ \A c \in Callers : WF_vars(SelectStep(c))

\* A fresh client over two records above the threshold, with one select
\* call and feedback calls made between its steps.
InitFrame ==
    InitWith([k \in Keys |-> IF k = KHttpB THEN NoRecord
                             ELSE Rec(10, 5, 30, "", 60, 0)],
             <<>>, Unset, "calls")
NextFrame ==
    \/ SelectStep(1)
    \/ FeedbackStep
SpecFrame == InitFrame /\ [][NextFrame]_vars

\* A fresh client in a program of one thread: select calls, one after the
\* other, and del_all_fails calls made between their steps. The records are
\* cached at 0 and score 10.42, or cached at 7.0 and score -3.
InitServe == \E st \in ConcStores : InitWith(st, <<>>, Unset, "serial")
NextServe ==
    \/ \E c \in Callers : SelectStep(c)
    \/ PruneStep
SpecServe == InitServe /\ [][NextServe]_vars

(***************************** claims **************************************)

\* The scheme prefix a select call asks for: the lowered argument and ":".
Prefix(c) == IF arg[c] = <<>> THEN <<>> ELSE Lower(arg[c]) \o <<":">>

\* C1: when select("") calls on one client are consumed with their steps
\* interleaved, each call that reaches its end has yielded every entry of
\* the working set exactly once, in rank order.
C1_EachCallSeesFullSet ==
    (\A d \in Callers : arg[d] = <<>>)
        => \A c \in Callers :
              pc[c] = "done" => out[c] = Matching(ppool, <<>>)

\* C2: a select call made after an earlier call was dropped part-way
\* still yields all matching entries, from the highest-ranked one.
C2_IsolatedPosition ==
    \A c \in Callers :
        (pc[c] = "done" /\ \E d \in Callers \ {c} : pc[d] = "closed")
            => out[c] = Matching(ppool, Prefix(c))

\* C3: a select call with a non-empty filter never yields a key whose
\* scheme prefix differs from the filter it asked for.
C3_FilterRespected ==
    \A c \in Callers :
        arg[c] # <<>>
            => \A i \in 1..Len(out[c]) : StartsWith(out[c][i], Prefix(c))

\* C4: while a select call is in progress, no step of the periodic refresh
\* shows it anything but the previous working set or the complete, sorted
\* new one.
C4_AtomicReplace ==
    [][ (RefreshStep /\ \E c \in Callers : Active(c))
          => (ppool' = ppool \/ ppool' = BuiltPool(store')) ]_vars

\* C5: after any sequence of mark_good and mark_dead calls no key is in
\* good and in dead at the same time.
C5_GoodDeadDisjoint == good \cap dead = {}

\* C5 (amended): a key comes to be in good and in dead at once only by
\* mark_good on a key that is in dead; mark_dead never leaves its key in
\* both.
C5_OverlapOnlyByMarkGood ==
    [][ \A x \in Keys :
          (x \in good' \cap dead' /\ x \notin good \cap dead)
              => (x \in dead /\ fblog'[Len(fblog')] = <<"good", x>>) ]_vars

\* C5's case: a key marked dead, then good, is in both sets.
C5_Witness ==
    /\ Len(fblog) >= 2
    /\ fblog[Len(fblog) - 1] = <<"dead", KHttpB>>
    /\ fblog[Len(fblog)] = <<"good", KHttpB>>
    /\ KHttpB \in good \cap dead

\* C6: right after mark_dead(x), x is in dead and not in good; right after
\* mark_good(x), mark_dead(x), mark_good(x), x is in good.
C6_MarkDeadThenGood ==
    LET n == Len(fblog) IN
    /\ (n >= 1 /\ fblog[n][1] = "dead")
          => (fblog[n][2] \in dead /\ fblog[n][2] \notin good)
    /\ (n >= 3 /\ fblog[n-2][1] = "good" /\ fblog[n-1][1] = "dead"
               /\ fblog[n][1] = "good"
               /\ fblog[n-2][2] = fblog[n][2] /\ fblog[n-1][2] = fblog[n][2])
          => fblog[n][2] \in good

\* C6's case: good, dead, good on one key.
C6_Witness ==
    /\ Len(fblog) >= 3
    /\ LET n == Len(fblog) IN
        /\ fblog[n-2] = <<"good", KHttpA>>
        /\ fblog[n-1] = <<"dead", KHttpA>>
        /\ fblog[n] = <<"good", KHttpA>>
    /\ KHttpA \in good

\* Descending by score, equal scores descending by key.
SortedDesc(pool) ==
    \A i \in 1..(Len(pool) - 1) :
        /\ pool[i][1] >= pool[i+1][1]
        /\ pool[i][1] = pool[i+1][1] => ~StrLess(pool[i][2], pool[i+1][2])

\* C7: after a rebuild completes the working set is sorted descending by
\* score, and entries of equal score are in descending key order.
C7_SortedAfterRebuild ==
    pc[Refresher] = "L79" => SortedDesc(ppool)

\* C7's case: a completed rebuild with three entries, two of them tied.
C7_Witness ==
    /\ pc[Refresher] = "L79"
    /\ Len(ppool) = 3
    /\ \E i \in 1..2 : ppool[i][1] = ppool[i+1][1]
    /\ \E i \in 1..2 : ppool[i][1] > ppool[i+1][1]

\* C8: a completed rebuild has written the computed score back to every
\* record of the store it scanned, and the working set holds exactly the
\* records scored strictly above the threshold, each once with its score.
C8_RebuildScoresAndFilters ==
    pc[Refresher] = "L79" =>
        LET st0 == snap
            kept == {k \in Keys : Exists(st0[k])
                        /\ cal_score(st0[k]).val > LOWEST_SCORE * Scale}
        IN /\ \A k \in Keys :
                Exists(st0[k]) =>
                    /\ Exists(store[k])
                    /\ store[k].score = cal_score(st0[k]).val
           /\ {ppool[i] : i \in 1..Len(ppool)}
                = {<<cal_score(st0[k]).val, k>> : k \in kept}
           /\ Len(ppool) = Cardinality(kept)

\* C8's case: a completed rebuild that kept one record, rescored a record
\* exactly at the threshold and one below it without keeping them.
C8_Witness ==
    /\ pc[Refresher] = "L79"
    /\ Len(ppool) = 1
    /\ \E k \in Keys : Exists(store[k]) /\ store[k].score = LOWEST_SCORE * Scale
                       /\ snap[k].score # store[k].score
    /\ \E k \in Keys : Exists(store[k]) /\ store[k].score < 0
                       /\ snap[k].score # store[k].score

\* The prune floor: two points below the threshold.
PruneFloor == (LOWEST_SCORE - 2) * Scale

\* C9: a completed prune pass has deleted every record whose stored score
\* was at or below the floor and left every other record as it was; a
\* second pass right after it deletes nothing.
C9_PruneExact ==
    (pc[Pruner] = "idle" /\ prunes >= 1) =>
        /\ \A k \in Keys :
              store[k] = IF Exists(snap[k])
                            /\ snap[k].score <= PruneFloor
                         THEN NoRecord
                         ELSE snap[k]
        /\ prunes >= 2 => store = snap

\* C9's case: a completed pass that deleted a record exactly at the floor
\* and kept a record between the floor and the threshold.
C9_Witness ==
    /\ pc[Pruner] = "idle"
    /\ prunes = 1
    /\ \E k \in Keys : /\ Exists(snap[k])
                       /\ snap[k].score = PruneFloor
                       /\ ~Exists(store[k])
    /\ \E k \in Keys : /\ Exists(store[k])
                       /\ store[k].score > PruneFloor
                       /\ store[k].score <= LOWEST_SCORE * Scale

\* C10: with the pruner and the pool builder running concurrently, every
\* record present in the store has all of its fields (a deleted record is
\* not brought back by the rebuild's score write).
C10_RecordsKeepFields ==
    \A k \in Keys : Exists(store[k]) => Fields \subseteq DOMAIN store[k]

\* C11: a select call that runs past the last entry of the working set ends
\* with a clean end of the sequence, never with an error; so does one that
\* found no match, and one whose rebuild ran over an empty store.
C11_CleanExhaustion ==
    \A c \in Callers : pc[c] = "done" => exc[c] = ""

\* C12: a malformed record (a counter field missing) does not end the
\* rebuild: it is skipped, and the completed rebuild has scored and persisted
\* every well-formed record and holds those above the threshold, sorted.
C12_MalformedSkipped ==
    /\ exc[Refresher] # "KeyError"
    /\ pc[Refresher] = "L79" =>
          (ppool = BuiltPool(snap) /\ store = Rescored(snap))

\* The exceptions cal_score ends a rebuild with.
RebuildErrors == {"KeyError", "ZeroDivisionError", "ValueError"}

\* C13: a rebuild that failed part-way has left the working set as it was
\* before the rebuild started, and its process has the failure.
C13_FailedRebuildKeepsPool ==
    \A p \in Callers \cup {Refresher} :
        (pc[p] = "raised" /\ exc[p] \in RebuildErrors) => ppool = prior[p]

\* This step deletes the record of key k.
Deleted(k) == Exists(store[k]) /\ ~Exists(store'[k])

\* C14: a record is deleted only by the pruner, and only once its score has
\* been at or below the floor for two evaluations in a row; one evaluation
\* at or below the floor does not get it deleted.
C14_DeletedAfterTwoEvaluations ==
    [][ \A k \in Keys :
          Deleted(k) => (pc[Pruner] = "op" /\ pkey[Pruner] = k
                         /\ lows[k] >= 2) ]_vars

\* C14 (amended): a record is deleted only by the pruner's delete step, and
\* only when the score the prune pass read for it is at or below the floor;
\* how many evaluations put it there plays no part.
C14_DeletedOnlyByPrunerAtFloor ==
    [][ \A k \in Keys :
          Deleted(k) => (/\ pc[Pruner] = "op"
                         /\ pc'[Pruner] = "scan"
                         /\ pkey[Pruner] = k
                         /\ "score" \in DOMAIN stat[Pruner]
                         /\ stat[Pruner].score <= PruneFloor) ]_vars

\* C14's case: the pruner has just deleted a record that one evaluation, by
\* the rebuild, had put below the floor.
C14_Witness ==
    /\ pc[Pruner] = "scan"
    /\ pkey[Pruner] \in Keys
    /\ ~Exists(store[pkey[Pruner]])
    /\ stat[Pruner].score < 0
    /\ lows[pkey[Pruner]] = 1
    /\ rounds = 1

\* C15: for a record with success_count = 0 cal_score returns -used_count
\* exactly, whatever total_seconds, last_fail, timestamp and the cached
\* score are, and the rebuild persists that value; never used and never
\* succeeded scores 0.
C15_NeverSucceededScore ==
    /\ \A r \in ScoreInputs :
          r.success_count = 0 => cal_score(r) = Ok(-(Scale * r.used_count))
    /\ (/\ pc[Refresher] \in {"L85", "L79", "raised"}
        /\ Fields \subseteq DOMAIN stat[Refresher]
        /\ stat[Refresher].success_count = 0)
          => /\ pc[Refresher] # "raised"
             /\ store[pkey[Refresher]].score
                  = -(Scale * stat[Refresher].used_count)

\* C15's case: a completed rebuild has scored 0 a never-used record that
\* was slow, had a last failure, a timestamp ahead of the clock and a cached
\* score of 7.0, and -100 one used a hundred times in vain.
C15_Witness ==
    /\ pc[Refresher] = "L79"
    /\ \/ /\ snap[KHttpA] = Rec(0, 0, 20, "x", -5, 700)
          /\ store[KHttpA].score = 0
       \/ /\ snap[KHttpA] = Rec(100, 0, 20, "x", -5, 700)
          /\ store[KHttpA].score = -(100 * Scale)
    /\ Exists(store[KHttpsA])

\* Record rec is well-formed and has never succeeded.
NeverSucceeded(rec) ==
    Fields \subseteq DOMAIN rec /\ rec.success_count = 0

\* Record rec is well-formed and has succeeded at least once.
Succeeded(rec) ==
    /\ Fields \subseteq DOMAIN rec
    /\ 1 <= rec.success_count
    /\ rec.success_count <= rec.used_count

\* C16: after a rebuild every never-succeeded record has a score strictly
\* below that of every record with at least one success.
C16_NeverSucceededBelow ==
    pc[Refresher] = "L79" =>
        \A k1, k2 \in Keys :
            (NeverSucceeded(store[k1]) /\ Succeeded(store[k2]))
                => store[k1].score < store[k2].score

\* C16 (amended): a never-succeeded record scores at most 0, so after a
\* rebuild none is in the working set: every entry of the working set has
\* succeeded and ranks strictly above every never-succeeded record.
C16_NeverSucceededNotRanked ==
    pc[Refresher] = "L79" =>
        /\ \A k \in Keys : NeverSucceeded(store[k]) => store[k].score <= 0
        /\ \A i \in 1..Len(ppool) :
              /\ Succeeded(store[ppool[i][2]])
              /\ \A k \in Keys :
                    NeverSucceeded(store[k]) => store[k].score < ppool[i][1]

\* C16's case: after a rebuild a record with a success (1 in 100 uses, a
\* last failure, 30 days old) is scored below a never-used record, and
\* neither is in the working set.
C16_Witness ==
    /\ pc[Refresher] = "L79"
    /\ NeverSucceeded(store[KHttpsA])
    /\ Succeeded(store[KHttpA])
    /\ store[KHttpA].score < store[KHttpsA].score
    /\ ppool = <<>>

\* C17: every select call that keeps being consumed reaches its end, however
\* the calls in progress are interleaved; and a call consumed while no other
\* call has been made yields at most as many keys as the working set has
\* entries.
C17_SelectIsFinite ==
    /\ \A c \in Callers : Active(c) ~> ~Active(c)
    /\ [](\A c \in Callers :
            (\A d \in Callers \ {c} : pc[d] = "idle")
                => Len(out[c]) <= Len(ppool))

\* C17's case: a call consumed alone has ended having yielded the three
\* entries of the working set, and a second call, consumed after it, ended
\* too.
C17_Witness ==
    /\ Len(ppool) = 3
    /\ pc[1] = "done"
    /\ Len(out[1]) = 3
    /\ pc[2] = "done"

\* C18: the working set never holds two entries for one proxy key, also
\* when a rebuild started by a select call overlaps the periodic refresh.
C18_OneEntryPerKey ==
    \A i, j \in 1..Len(ppool) : ppool[i][2] = ppool[j][2] => i = j

\* C19: mark_good(x) leaves dead as it is and changes good only by adding
\* x; mark_dead(x) changes good only by removing x and dead only by adding
\* x; neither changes the working set, the cursor position or a record; and
\* a call that repeats the call before it changes neither set.
C19_FeedbackFrame ==
    [][ fblog' # fblog =>
          LET call == fblog'[Len(fblog')]
              x == call[2]
          IN /\ call[1] = "good" => (dead' = dead /\ good' = good \cup {x})
             /\ call[1] = "dead" => (good' = good \ {x}
                                     /\ dead' = dead \cup {x})
             /\ ppool' = ppool
             /\ idx' = idx
             /\ store' = store
             /\ (Len(fblog) >= 1 /\ fblog[Len(fblog)] = call)
                   => (good' = good /\ dead' = dead) ]_vars

\* C19's case: with the working set built and the cursor on its second
\* entry, a key is marked dead, then good twice: it is in both sets.
C19_Witness ==
    /\ Len(ppool) = 2
    /\ idx = 1
    /\ pc[1] = "yield"
    /\ fblog = <<<<"dead", KHttpA>>, <<"good", KHttpA>>, <<"good", KHttpA>>>>
    /\ KHttpA \in good \cap dead

\* C20: in a program of one thread, with this client the only writer of
\* scores, del_all_fails never deletes the record of a key of the working
\* set: every entry's record is persisted with the entry's score, above the
\* threshold, and every key a select call has yielded still has its record.
C20_YieldedKeysPersist ==
    /\ \A i \in 1..Len(ppool) :
          /\ Exists(store[ppool[i][2]])
          /\ store[ppool[i][2]].score = ppool[i][1]
          /\ ppool[i][1] > LOWEST_SCORE * Scale
    /\ \A c \in Callers :
          \A i \in 1..Len(out[c]) : Exists(store[out[c][i]])

\* C20's case: a select call has yielded a key whose record was cached at 0
\* before the rebuild, and a prune pass made after that has deleted another
\* record and left this one.
C20_Witness ==
    /\ pc[Pruner] = "idle"
    /\ prunes >= 1
    /\ \E k \in Keys : ~Exists(store[k])
    /\ Len(out[1]) >= 1
    /\ snap[out[1][1]].score = 1042
    /\ lows[out[1][1]] = 0
    /\ store[out[1][1]] = Rec(10, 5, 30, "", 60, 1042)

=============================================================================
